---------------------------- MODULE Spec2Model ----------------------------
(***************************************************************************)
(* Model of dbus/src/nonblock.rs: the non-blocking connection (reply table, *)
(* filter table, process_one / process_all), the Proxy method call with its *)
(* timeout race, and the oneshot cell (MRInner / MROuter) that carries a    *)
(* reply from the dispatching thread to the awaiting task.                  *)
(***************************************************************************)
EXTENDS Integers, Sequences, FiniteSets, TLC

(* ------------------------------ bounds -------------------------------- *)
\* messages the transport sends (the serials it hands out)
MaxSends == 2
\* method calls made through a Proxy
MaxCalls == 1
\* start_receive calls
MaxFilters == 2
\* received messages the transport holds for pop_message
MaxQueue == 2
\* polls of one MROuter that no wake asked for
MaxPolls == 4

(* ------------------------------ messages ------------------------------ *)
MsgTypes == {"method_call", "method_return", "signal"}

\* The attributes of an incoming Message the dispatch reads: its type, its
\* reply serial (0: get_reply_serial() is None) and its no-reply flag.
Messages ==
    [mtype : {"method_call"}, reply_serial : {0}, no_reply : BOOLEAN]
    \cup [mtype : {"method_call"}, reply_serial : 1..MaxSends, no_reply : {FALSE}]
    \cup [mtype : {"method_return"}, reply_serial : 1..MaxSends, no_reply : {TRUE}]
    \cup [mtype : {"signal"}, reply_serial : {0}, no_reply : {TRUE}]

NoMsg == [mtype |-> "none", reply_serial |-> 0, no_reply |-> TRUE]

\* A MatchRule restricted to its msg_type field: None matches every message.
Rules == {"any", "signal"}

Matches(rule, msg) == rule = "any" \/ rule = msg.mtype

\* msg.get_reply_serial(): Some(serial) when the message carries one
HasReplySerial(msg) == msg.reply_serial # 0

\* crate::channel::default_reply: an error reply for a method call that wants
\* a reply, nothing for any other message
DefaultReply(msg) ==
    IF msg.mtype = "method_call" /\ ~msg.no_reply
    THEN [some |-> TRUE, mtype |-> "error", re |-> msg]
    ELSE [some |-> FALSE, mtype |-> "none", re |-> NoMsg]

(* --------------------------- the oneshot cell -------------------------- *)
\* enum MRInner { Ready(Result<Message, Error>), Pending(Waker), Neither }
Neither == [tag |-> "Neither", waker |-> 0, val |-> NoMsg]
Pending(w) == [tag |-> "Pending", waker |-> w, val |-> NoMsg]
Ready(m) == [tag |-> "Ready", waker |-> 0, val |-> m]

\* mem::replace(&mut *inner, new): the new content and the old one
MemReplace(inner, new) == [inner |-> new, old |-> inner]

\* MROuter::poll, first half: let r = mem::replace(&mut *inner, Neither)
PollTake(inner) == MemReplace(inner, Neither)

\* MROuter::poll, second half: Ready(r) is returned, anything else is
\* overwritten by Pending(ctx.waker().clone())
PollSettle(inner, r, w) ==
    IF r.tag = "Ready"
    THEN [inner |-> inner, ready |-> TRUE, val |-> r.val]
    ELSE [inner |-> MemReplace(inner, Pending(w)).inner, ready |-> FALSE, val |-> NoMsg]

\* MROuter::poll as a whole (it runs under the cell's lock)
MROuterPoll(inner, w) ==
    LET t == PollTake(inner) IN PollSettle(t.inner, t.old, w)

\* the producer closure's store: mem::replace(&mut *inner, Ready(Ok(msg)))
ProducerStore(inner, msg) == MemReplace(inner, Ready(msg))

\* A producer closure that stores the value and wakes nobody
ProducerNeverWakes(old) == FALSE

\* A producer closure that invokes a wake handle whatever it found in the cell
ProducerAlwaysWakes(old) == TRUE

\* the producer closure's wake: if let Pending(waker) = old { waker.wake() }
ProducerWakes(old) == old.tag = "Pending"

(* ---------------------------- reply table ----------------------------- *)
\* A reply callback: a plain callback handed to send_with_reply (kind "user",
\* id the serial it was sent under) or the producer closure of method call
\* number id.
NoCb == [kind |-> "none", id |-> 0]
UserCb(n) == [kind |-> "user", id |-> n]
ProducerCb(c) == [kind |-> "producer", id |-> c]
ReplyCbs == {UserCb(n) : n \in 1..MaxSends} \cup {ProducerCb(c) : c \in 1..MaxCalls}

\* Token(x as usize)
Token(x) == x

\* HashMap::insert
RepliesInsert(replies, t, f) ==
    [k \in DOMAIN replies \cup {t} |-> IF k = t THEN f ELSE replies[k]]

\* A remove that hands out the value and leaves the entry in the table
RepliesPeek(replies, t) ==
    IF t \in DOMAIN replies
    THEN [table |-> replies, f |-> replies[t]]
    ELSE [table |-> replies, f |-> NoCb]

\* HashMap::remove: the table without the key, and the value it held
RepliesRemove(replies, t) ==
    IF t \in DOMAIN replies
    THEN [table |-> [k \in DOMAIN replies \ {t} |-> replies[k]], f |-> replies[t]]
    ELSE [table |-> replies, f |-> NoCb]

(* ---------------------------- filter table ---------------------------- *)
\* An entry is (token, rule, callback).  The list holds the entries in the
\* order remove_matching searches them: the order in which add created them,
\* which is the order of their tokens.
NoEntry == [token |-> 0, rule |-> "none", cb |-> 0]

RemoveAt(s, i) == SubSeq(s, 1, i - 1) \o SubSeq(s, i + 1, Len(s))
InsertAt(s, i, e) == SubSeq(s, 1, i - 1) \o <<e>> \o SubSeq(s, i, Len(s))

\* Filters::add: a fresh token, the entry last in the order
FiltersAdd(filters, rule, cb) ==
    [filters |-> [list |-> Append(filters.list,
                                  [token |-> filters.nextid, rule |-> rule, cb |-> cb]),
                  nextid |-> filters.nextid + 1],
     token |-> filters.nextid]

\* Filters::remove
FiltersRemove(filters, id) ==
    LET hits == {i \in 1..Len(filters.list) : filters.list[i].token = id} IN
    IF hits = {}
    THEN [filters |-> filters, entry |-> NoEntry]
    ELSE LET i == CHOOSE j \in hits : \A k \in hits : j <= k IN
         [filters |-> [filters EXCEPT !.list = RemoveAt(filters.list, i)],
          entry |-> filters.list[i]]

\* Filters::remove_matching: the first entry, in order, whose rule matches
FiltersRemoveMatching(filters, msg) ==
    LET hits == {i \in 1..Len(filters.list) : Matches(filters.list[i].rule, msg)} IN
    IF hits = {}
    THEN [filters |-> filters, entry |-> NoEntry]
    ELSE LET i == CHOOSE j \in hits : \A k \in hits : j <= k IN
         [filters |-> [filters EXCEPT !.list = RemoveAt(filters.list, i)],
          entry |-> filters.list[i]]

\* The rank of token t among the tokens of the list
TokenRank(list, t) == 1 + Cardinality({i \in 1..Len(list) : list[i].token < t})

\* Filters::insert puts an entry back under its old token, at its old place
\* in the order
FiltersInsert(filters, entry) ==
    [filters EXCEPT !.list = InsertAt(@, TokenRank(@, entry.token), entry)]

(* ------------------------------- state -------------------------------- *)
VARIABLES
    replies,        \* Connection.replies: Token -> reply callback
    filters,        \* Connection.filters: [list, nextid]
    timeout_maker,  \* Connection.timeout_maker is Some(..)
    serial,         \* Channel: the serial given to the last message sent
    inq,            \* Channel: received messages not yet popped
    calls,          \* the method calls made so far (MRAwait + its future)
    rinv,           \* history: how often each reply callback was invoked
    cancelled,      \* history: the reply callbacks cancel_reply returned
    flast,          \* history: what each filter callback returned last
    mr,             \* one oneshot cell: the MRInner behind Arc<Mutex<..>>
    mrlock,         \* who holds the cell's Mutex: "free", "consumer", "producer"
    cons,           \* the task polling the cell's MROuter
    prod,           \* the thread running the cell's producer closure
    wakes,          \* history: the wake handles invoked, in order
    disp,           \* the thread inside process_all / process_one, step by step
    sender,         \* a thread inside send_with_reply, step by step
    guards          \* who holds the guard of the reply table, of the filter table

connVars == <<replies, filters, timeout_maker, serial, inq, calls, rinv, cancelled, flast>>
cellVars == <<mr, mrlock, cons, prod, wakes>>
stepVars == <<disp, sender, guards>>

\* The part of the state a dispatch reads and changes
Conn == [replies |-> replies, filters |-> filters, serial |-> serial,
         calls |-> calls, rinv |-> rinv, flast |-> flast]

\* What the dispatch of a message that invoked nothing records
NoEvent(msg) == [msg |-> msg, reply |-> NoCb, filter |-> NoEntry, fret |-> FALSE,
                 sends |-> <<>>]

(* -------------------------- sending, replies --------------------------- *)
\* Channel::send: the serial of the message, or failure (sendok = FALSE)
ChannelSend(st, sendok) ==
    IF sendok THEN [st |-> [st EXCEPT !.serial = @ + 1], ok |-> TRUE, serial |-> st.serial + 1]
    ELSE [st |-> st, ok |-> FALSE, serial |-> 0]

\* NonblockReply::send_with_reply: the callback is stored under the serial
\* only when the send succeeded
SendWithReplyOp(st, f, sendok) ==
    LET s == ChannelSend(st, sendok) IN
    IF s.ok
    THEN [st |-> [s.st EXCEPT !.replies = RepliesInsert(@, Token(s.serial), f)],
          ok |-> TRUE, token |-> Token(s.serial)]
    ELSE [st |-> s.st, ok |-> FALSE, token |-> 0]

\* A producer closure that also overwrites the outcome the call has delivered
RunProducerRedelivers(call, msg, c) ==
    [call EXCEPT !.cell = Ready(msg), !.result = "reply", !.rmsg = msg,
                 !.order = Append(@, "producer"), !.pmsg = msg]

\* The producer closure of method call c, run with msg
RunProducer(call, msg, c) ==
    LET s == ProducerStore(call.cell, msg) IN
    [call EXCEPT !.cell = s.inner,
                 !.woken = @ \/ ProducerWakes(s.old),
                 !.order = Append(@, "producer"),
                 !.pmsg = msg]

\* f(msg, self) for a reply callback f
InvokeReply(st, f, msg) ==
    LET counted == [st EXCEPT !.rinv[f] = @ + 1] IN
    IF f.kind = "producer"
    THEN [counted EXCEPT !.calls[f.id] = RunProducer(@, msg, f.id)]
    ELSE counted

(* ------------------------------ dispatch ------------------------------ *)
\* A reply branch that is taken only when no filter matches the message
ReplyBranchAfterFilters(st, msg) ==
    IF HasReplySerial(msg) /\ FiltersRemoveMatching(st.filters, msg).entry = NoEntry
    THEN RepliesRemove(st.replies, Token(msg.reply_serial))
    ELSE [table |-> st.replies, f |-> NoCb]

\* A reply branch that looks the callback up and leaves its entry in place
ReplyBranchKeepsEntry(st, msg) ==
    IF HasReplySerial(msg) /\ Token(msg.reply_serial) \in DOMAIN st.replies
    THEN [table |-> st.replies, f |-> st.replies[Token(msg.reply_serial)]]
    ELSE [table |-> st.replies, f |-> NoCb]

\* Process::process_one, lines 152-157: the reply branch
ReplyBranch(st, msg) ==
    IF HasReplySerial(msg)
    THEN RepliesRemove(st.replies, Token(msg.reply_serial))
    ELSE [table |-> st.replies, f |-> NoCb]

\* A filter branch that puts the entry back whatever its callback returned
FilterBranchAlwaysKeeps(st, msg, ff, ch) ==
    LET ran == [st EXCEPT !.filters = ff.filters,
                          !.flast[ff.entry.cb] = IF ch.fret THEN "true" ELSE "false"]
    IN [st |-> [ran EXCEPT !.filters = FiltersInsert(@, ff.entry)],
        ev |-> [NoEvent(msg) EXCEPT !.filter = ff.entry, !.fret = ch.fret]]

\* Process::process_one, lines 158-162: the first matching filter is taken
\* out, called, and put back when it returned true (ch.fret its result)
FilterBranch(st, msg, ff, ch) ==
    LET ran == [st EXCEPT !.filters = ff.filters,
                          !.flast[ff.entry.cb] = IF ch.fret THEN "true" ELSE "false"]
    IN [st |-> IF ch.fret
               THEN [ran EXCEPT !.filters = FiltersInsert(@, ff.entry)]
               ELSE ran,
        ev |-> [NoEvent(msg) EXCEPT !.filter = ff.entry, !.fret = ch.fret]]

\* A default branch that gives up, with no reply sent, when the transport
\* cannot send
DefaultBranchSkipsFailedSend(st, msg, ch) ==
    LET reply == DefaultReply(msg) IN
    IF reply.some /\ ch.sendok
    THEN LET s == ChannelSend(st, ch.sendok) IN
         [st |-> s.st,
          ev |-> [NoEvent(msg) EXCEPT !.sends = <<[msg |-> reply, ok |-> s.ok]>>]]
    ELSE [st |-> st, ev |-> NoEvent(msg)]

\* Process::process_one, lines 163-165: the default reply of an unhandled
\* message is sent and the result of the send dropped (ch.sendok)
DefaultBranch(st, msg, ch) ==
    LET reply == DefaultReply(msg) IN
    IF reply.some
    THEN LET s == ChannelSend(st, ch.sendok) IN
         [st |-> s.st,
          ev |-> [NoEvent(msg) EXCEPT !.sends = <<[msg |-> reply, ok |-> s.ok]>>]]
    ELSE [st |-> st, ev |-> NoEvent(msg)]

\* Process::process_one.  ch holds what the environment decides during the
\* dispatch.
ProcessOneOp(st, msg, ch) ==
    LET r == ReplyBranch(st, msg) IN
    IF r.f # NoCb
    THEN [st |-> InvokeReply([st EXCEPT !.replies = r.table], r.f, msg),
          ev |-> [NoEvent(msg) EXCEPT !.reply = r.f]]
    ELSE LET ff == FiltersRemoveMatching(st.filters, msg) IN
         IF ff.entry # NoEntry
         THEN FilterBranch(st, msg, ff, ch)
         ELSE DefaultBranch(st, msg, ch)

\* What the environment decides during one dispatch: the result of the filter
\* callback, and whether the transport sends the default reply
Choices == [fret : BOOLEAN, sendok : BOOLEAN]

\* Every way one dispatch of msg can end (the transport hands out at most
\* MaxSends serials)
ProcessOneOutcomes(st, msg) ==
    {ProcessOneOp(st, msg, ch) : ch \in {x \in Choices : x.sendok => st.serial < MaxSends}}

\* Process::process_all: pop and dispatch until pop_message() gives None.
\* Every way the drain of queue can end, with the events in dispatch order.
RECURSIVE ProcessAllOutcomes(_, _, _)
ProcessAllOutcomes(st, queue, evs) ==
    IF queue = <<>>
    THEN {[st |-> st, events |-> evs]}
    ELSE UNION {ProcessAllOutcomes(one.st, Tail(queue), Append(evs, one.ev)) :
                  one \in ProcessOneOutcomes(st, Head(queue))}

Install(st) ==
    /\ replies' = st.replies
    /\ filters' = st.filters
    /\ serial' = st.serial
    /\ calls' = st.calls
    /\ rinv' = st.rinv
    /\ flast' = st.flast

(* ------------------------------ actions ------------------------------- *)
Init ==
    /\ replies = <<>>
    /\ filters = [list |-> <<>>, nextid |-> 1]
    /\ timeout_maker = FALSE
    /\ serial = 0
    /\ inq = <<>>
    /\ calls = <<>>
    /\ rinv = [f \in ReplyCbs |-> 0]
    /\ cancelled = {}
    /\ flast = [cb \in 1..MaxFilters |-> "none"]
    /\ mr = Neither
    /\ mrlock = "free"
    /\ cons = [pc |-> "idle", r |-> Neither, n |-> 0, woken |-> FALSE, log |-> <<>>,
               stored |-> <<>>]
    /\ prod = [pc |-> "idle", msg |-> NoMsg, old |-> Neither, armed |-> 0]
    /\ wakes = <<>>
    /\ disp = [pc |-> "idle", msg |-> NoMsg, f |-> NoCb, ff |-> NoEntry,
               start |-> <<>>, done |-> <<>>, missed |-> {}]
    /\ sender = [pc |-> "idle", token |-> 0]
    /\ guards = [replies |-> "free", filters |-> "free"]

\* MatchingReceiver::start_receive
StartReceive(rule) ==
    /\ filters.nextid <= MaxFilters
    /\ filters' = FiltersAdd(filters, rule, filters.nextid).filters
    /\ UNCHANGED <<replies, timeout_maker, serial, inq, calls, rinv, cancelled, flast, cellVars, stepVars>>

\* MatchingReceiver::stop_receive
StopReceive(id) ==
    /\ filters' = FiltersRemove(filters, id).filters
    /\ UNCHANGED <<replies, timeout_maker, serial, inq, calls, rinv, cancelled, flast, cellVars, stepVars>>

\* NonblockReply::send_with_reply with a plain callback
SendWithReply(sendok) ==
    /\ sendok => serial < MaxSends
    /\ Install(SendWithReplyOp(Conn, UserCb(serial + 1), sendok).st)
    /\ UNCHANGED <<timeout_maker, inq, cancelled, cellVars, stepVars>>

\* NonblockReply::cancel_reply
CancelReply(id) ==
    /\ LET r == RepliesRemove(replies, id) IN
       /\ replies' = r.table
       /\ cancelled' = IF r.f # NoCb THEN cancelled \cup {r.f} ELSE cancelled
    /\ UNCHANGED <<filters, timeout_maker, serial, inq, calls, rinv, flast, cellVars, stepVars>>

\* NonblockReply::set_timeout_maker
SetTimeoutMaker(f) ==
    /\ f # timeout_maker
    /\ timeout_maker' = f
    /\ UNCHANGED <<replies, filters, serial, inq, calls, rinv, cancelled, flast, cellVars, stepVars>>

\* The transport receives a message (read_write, outside this file)
Incoming(msg) ==
    /\ Len(inq) < MaxQueue
    /\ inq' = Append(inq, msg)
    /\ UNCHANGED <<replies, filters, timeout_maker, serial, calls, rinv, cancelled, flast>>
    /\ UNCHANGED <<cellVars, stepVars>>

\* Process::process_one called with a message
ProcessOne(msg) ==
    /\ \E r \in ProcessOneOutcomes(Conn, msg) : Install(r.st)
    /\ UNCHANGED <<timeout_maker, inq, cancelled, cellVars, stepVars>>

\* Process::process_all
ProcessAll ==
    /\ \E r \in ProcessAllOutcomes(Conn, inq, <<>>) : Install(r.st)
    /\ inq' = <<>>
    /\ UNCHANGED <<timeout_maker, cancelled, cellVars, stepVars>>

(* ---------------------------- method calls ---------------------------- *)
\* Proxy::method_call_setup (called by method_call): the cell, the producer
\* closure, send_with_reply, the connection's timeout maker
MethodCall(sendok) ==
    /\ Len(calls) < MaxCalls
    /\ sendok => serial < MaxSends
    /\ LET c == Len(calls) + 1
           r == SendWithReplyOp(Conn, ProducerCb(c), sendok)
           mra == [token |-> r.token, ok |-> r.ok, timeoutfn |-> timeout_maker,
                   cell |-> Neither, stage |-> "new", timer |-> "unmade",
                   result |-> "none", rmsg |-> NoMsg, dropped |-> FALSE,
                   woken |-> FALSE, order |-> <<>>, seen |-> <<>>, pmsg |-> NoMsg]
       IN Install([r.st EXCEPT !.calls = Append(@, mra)])
    /\ UNCHANGED <<timeout_maker, inq, cancelled, cellVars, stepVars>>

\* A method_call_await whose timer completes even when no timeout maker is set
MakeTimerAlways(call, expired) ==
    IF expired
    THEN [call EXCEPT !.timer = "elapsed", !.order = Append(@, "timer")]
    ELSE [call EXCEPT !.timer = "running"]

\* A method_call_await whose timer is future::pending() even when a timeout
\* maker is set
MakeTimerPending(call, expired) == [call EXCEPT !.timer = "never"]

\* method_call_await, line 313: tfn(timeout) when a timeout maker is set (the
\* deadline may already have passed: expired), future::pending() otherwise
MakeTimer(call, expired) ==
    IF call.timeoutfn
    THEN IF expired
         THEN [call EXCEPT !.timer = "elapsed", !.order = Append(@, "timer")]
         ELSE [call EXCEPT !.timer = "running"]
    ELSE [call EXCEPT !.timer = "never"]

\* A select that polls the timer first and the reply future only when the
\* timer is pending
SelectPollTimerFirst(call, c) ==
    LET polled == [call EXCEPT !.woken = FALSE, !.stage = "select"] IN
    IF call.timer = "elapsed"
    THEN [polled EXCEPT !.stage = "done", !.result = "timeout", !.seen = call.order]
    ELSE LET p == MROuterPoll(call.cell, c) IN
         IF p.ready
         THEN [polled EXCEPT !.cell = p.inner, !.stage = "done", !.result = "reply",
                             !.rmsg = p.val, !.seen = call.order]
         ELSE [polled EXCEPT !.cell = p.inner]

\* future::select(mrouter, timeout) polled once: the reply future first, the
\* timer only when the reply future is pending
SelectPoll(call, c) ==
    LET p == MROuterPoll(call.cell, c)
        polled == [call EXCEPT !.cell = p.inner, !.woken = FALSE, !.stage = "select"]
    IN IF p.ready
       THEN [polled EXCEPT !.stage = "done", !.result = "reply", !.rmsg = p.val,
                           !.seen = call.order]
       ELSE IF call.timer = "elapsed"
       THEN [polled EXCEPT !.stage = "done", !.result = "timeout", !.seen = call.order]
       ELSE polled

\* A method_call_await that makes its timer before it looks at the result of
\* the send
AwaitPollTimerFirst(call, c, expired) ==
    IF call.stage = "new"
    THEN LET timed == MakeTimer(call, expired) IN
         IF ~call.ok
         THEN [timed EXCEPT !.stage = "done", !.result = "sendfail", !.woken = FALSE]
         ELSE SelectPoll(timed, c)
    ELSE SelectPoll(call, c)

\* method_call_await polled once
AwaitPoll(call, c, expired) ==
    IF call.stage = "new"
    THEN IF ~call.ok
         THEN [call EXCEPT !.stage = "done", !.result = "sendfail", !.woken = FALSE]
         ELSE SelectPoll(MakeTimer(call, expired), c)
    ELSE SelectPoll(call, c)

\* The task awaiting method call c polls its future
PollCall(c, expired) ==
    /\ c \in 1..Len(calls)
    /\ calls[c].stage # "done"
    /\ ~calls[c].dropped
    /\ calls' = [calls EXCEPT ![c] = AwaitPoll(@, c, expired)]
    /\ UNCHANGED <<replies, filters, timeout_maker, serial, inq, rinv, cancelled, flast>>
    /\ UNCHANGED <<cellVars, stepVars>>

\* The timer future of method call c completes and wakes the task
TimerFire(c) ==
    /\ c \in 1..Len(calls)
    /\ calls[c].timer = "running"
    /\ calls[c].stage = "select"
    /\ ~calls[c].dropped
    /\ calls' = [calls EXCEPT ![c].timer = "elapsed", ![c].woken = TRUE,
                              ![c].order = Append(@, "timer")]
    /\ UNCHANGED <<replies, filters, timeout_maker, serial, inq, rinv, cancelled, flast>>
    /\ UNCHANGED <<cellVars, stepVars>>

\* The future of method call c is dropped
DropCall(c) ==
    /\ c \in 1..Len(calls)
    /\ ~calls[c].dropped
    /\ calls' = [calls EXCEPT ![c].dropped = TRUE]
    /\ UNCHANGED <<replies, filters, timeout_maker, serial, inq, rinv, cancelled, flast>>
    /\ UNCHANGED <<cellVars, stepVars>>

(* ------------------- the oneshot cell, step by step -------------------- *)
\* One cell shared by a producer closure (run by the dispatching thread) and
\* an MROuter (polled by the awaiting task), each statement a step.

\* A lock that is handed out while somebody else holds it
CanLockAlways(lock) == TRUE

\* Mutex::lock() returns once nobody holds the lock
CanLock(lock) == lock = "free"

\* The wake handle of the n-th poll: ctx.waker().clone()
WakerOf(n) == n

\* MROuter::poll, line 364: self.0.lock().unwrap().  A poll happens when the
\* executor decides (at most MaxPolls times unasked) or after a wake.
PollLock ==
    /\ cons.pc = "idle"
    /\ cons.n < MaxPolls \/ cons.woken
    /\ CanLock(mrlock)
    /\ mrlock' = "consumer"
    /\ cons' = [cons EXCEPT !.pc = "locked", !.n = @ + 1, !.woken = FALSE]
    /\ UNCHANGED <<mr, prod, wakes>>
    /\ UNCHANGED <<connVars, stepVars>>

\* MROuter::poll, line 365
PollTakeStep ==
    /\ cons.pc = "locked"
    /\ LET t == PollTake(mr) IN
       /\ mr' = t.inner
       /\ cons' = [cons EXCEPT !.pc = "took", !.r = t.old]
    /\ UNCHANGED <<mrlock, prod, wakes>>
    /\ UNCHANGED <<connVars, stepVars>>

\* MROuter::poll, lines 366-370, and the guard dropped on return
PollSettleStep ==
    /\ cons.pc = "took"
    /\ LET p == PollSettle(mr, cons.r, WakerOf(cons.n)) IN
       /\ mr' = p.inner
       /\ cons' = [cons EXCEPT !.pc = "idle", !.r = Neither,
                               !.log = Append(@, [ready |-> p.ready, val |-> p.val]),
                               !.stored = IF p.ready THEN @ ELSE Append(@, WakerOf(cons.n))]
    /\ mrlock' = "free"
    /\ UNCHANGED <<prod, wakes>>
    /\ UNCHANGED <<connVars, stepVars>>

\* The producer closure is called with msg, line 330: mr.lock().unwrap()
ProdLock(msg) ==
    /\ prod.pc = "idle"
    /\ CanLock(mrlock)
    /\ mrlock' = "producer"
    /\ prod' = [prod EXCEPT !.pc = "locked", !.msg = msg]
    /\ UNCHANGED <<mr, cons, wakes>>
    /\ UNCHANGED <<connVars, stepVars>>

\* The producer closure, line 331
ProdStore ==
    /\ prod.pc = "locked"
    /\ LET s == ProducerStore(mr, prod.msg) IN
       /\ mr' = s.inner
       /\ prod' = [prod EXCEPT !.pc = "stored", !.old = s.old,
                               !.armed = IF cons.stored = <<>> THEN 0
                                         ELSE cons.stored[Len(cons.stored)]]
    /\ UNCHANGED <<mrlock, cons, wakes>>
    /\ UNCHANGED <<connVars, stepVars>>

\* The producer closure, line 332, and the guard dropped at its end
ProdWake ==
    /\ prod.pc = "stored"
    /\ IF ProducerWakes(prod.old)
       THEN /\ wakes' = Append(wakes, prod.old.waker)
            /\ cons' = [cons EXCEPT !.woken = TRUE]
       ELSE UNCHANGED <<wakes, cons>>
    /\ prod' = [prod EXCEPT !.pc = "done", !.old = Neither]
    /\ mrlock' = "free"
    /\ UNCHANGED mr
    /\ UNCHANGED <<connVars, stepVars>>

(* ---------------------- process_all, step by step ---------------------- *)
\* Channel::pop_message: the oldest received message, if there is one
PopMessage(queue) ==
    IF queue = <<>>
    THEN [some |-> FALSE, msg |-> NoMsg, rest |-> queue]
    ELSE [some |-> TRUE, msg |-> Head(queue), rest |-> Tail(queue)]

\* A loop that runs its body once before it looks at what was popped
AfterPopDispatchFirst(d, p) == [d EXCEPT !.pc = "dispatch", !.msg = p.msg]

\* process_all, line 269: while let Some(msg) = c.pop_message(): the loop body
\* is entered with the message, or the loop (and process_all) is left
AfterPop(d, p) ==
    IF p.some
    THEN [d EXCEPT !.pc = "dispatch", !.msg = p.msg]
    ELSE [d EXCEPT !.pc = "idle"]

\* A loop that is left after its first turn (if let in place of while let)
ReturnAfterDispatch(d) ==
    [d EXCEPT !.pc = "idle", !.done = Append(@, d.msg), !.msg = NoMsg]

\* process_all, lines 270-271: process_one has returned, back to the loop head
AfterDispatch(d) ==
    [d EXCEPT !.pc = "pop", !.done = Append(@, d.msg), !.msg = NoMsg]

\* process_all is called (disp.start: what the transport holds at that time)
ProcessAllStart ==
    /\ disp.pc = "idle"
    /\ disp' = [disp EXCEPT !.pc = "pop", !.start = inq, !.done = <<>>]
    /\ UNCHANGED <<connVars, cellVars, sender, guards>>

\* process_all, line 269
PopStep ==
    /\ disp.pc = "pop"
    /\ LET p == PopMessage(inq) IN
       /\ inq' = p.rest
       /\ disp' = AfterPop(disp, p)
    /\ UNCHANGED <<replies, filters, timeout_maker, serial, calls, rinv, cancelled, flast>>
    /\ UNCHANGED <<cellVars, sender, guards>>

\* process_all, line 270: self.process_one(msg)
DispatchStep ==
    /\ disp.pc = "dispatch"
    /\ \E r \in ProcessOneOutcomes(Conn, disp.msg) : Install(r.st)
    /\ disp' = AfterDispatch(disp)
    /\ UNCHANGED <<timeout_maker, inq, cancelled, cellVars, sender, guards>>

(* ---------------------- process_one, step by step ---------------------- *)
\* The guard that replies_mut() returns at line 153 is a temporary of the
\* scrutinee of `if let Some(f) = ...`: it lives to the end of the if-let, so
\* through the call of f when an entry was found, and not beyond the test
\* when none was.
GuardAfterLookup(found) == IF found THEN "disp" ELSE "free"

\* process_one has returned
Returned(d) == [d EXCEPT !.pc = "idle", !.msg = NoMsg, !.f = NoCb, !.ff = NoEntry]

\* process_one is called with msg
ProcessOneStart(msg) ==
    /\ disp.pc = "idle"
    /\ disp' = [disp EXCEPT !.pc = "lookup", !.msg = msg]
    /\ UNCHANGED <<connVars, cellVars, sender, guards>>

\* A lookup that ends process_one when the message carries a reply serial
\* that has no entry
LookupStepDropsStale ==
    /\ disp.pc = "lookup"
    /\ HasReplySerial(disp.msg) => guards.replies = "free"
    /\ LET r == ReplyBranch(Conn, disp.msg)
           found == r.f # NoCb
       IN /\ replies' = r.table
          /\ guards' = [guards EXCEPT !.replies = GuardAfterLookup(found)]
          /\ disp' = IF found THEN [disp EXCEPT !.pc = "reply_cb", !.f = r.f]
                     ELSE IF HasReplySerial(disp.msg) THEN Returned(disp)
                     ELSE [disp EXCEPT !.pc = "match"]
    /\ UNCHANGED <<filters, timeout_maker, serial, inq, calls, rinv, cancelled, flast>>
    /\ UNCHANGED <<cellVars, sender>>

\* process_one, lines 152-153: the reply table is locked (borrowed) and the
\* entry under the reply serial taken out.  disp.missed: the serials of the
\* messages that found no entry while a send_with_reply that was given that
\* serial by the transport has not yet stored its callback.
LookupStep ==
    /\ disp.pc = "lookup"
    /\ HasReplySerial(disp.msg) => guards.replies = "free"
    /\ LET r == ReplyBranch(Conn, disp.msg)
           found == r.f # NoCb
           miss == /\ HasReplySerial(disp.msg) /\ ~found
                   /\ sender.pc = "sent" /\ sender.token = Token(disp.msg.reply_serial)
       IN /\ replies' = r.table
          /\ guards' = [guards EXCEPT !.replies = GuardAfterLookup(found)]
          /\ disp' = [disp EXCEPT !.pc = IF found THEN "reply_cb" ELSE "match",
                                  !.f = r.f,
                                  !.missed = IF miss THEN @ \cup {disp.msg.reply_serial}
                                             ELSE @]
    /\ UNCHANGED <<filters, timeout_maker, serial, inq, calls, rinv, cancelled, flast>>
    /\ UNCHANGED <<cellVars, sender>>

\* process_one, lines 154-156: f(msg, self) runs and returns, process_one
\* returns and the temporaries of the if-let are dropped
ReplyCbStep ==
    /\ disp.pc = "reply_cb"
    /\ Install(InvokeReply(Conn, disp.f, disp.msg))
    /\ guards' = [guards EXCEPT !.replies = "free"]
    /\ disp' = Returned(disp)
    /\ UNCHANGED <<timeout_maker, inq, cancelled, cellVars, sender>>

\* A process_one that leaves the matching entry in the table while its
\* callback runs
MatchStepKeepsEntry ==
    /\ disp.pc = "match"
    /\ guards.filters = "free"
    /\ LET ff == FiltersRemoveMatching(filters, disp.msg) IN
       /\ filters' = filters
       /\ disp' = [disp EXCEPT !.pc = IF ff.entry # NoEntry THEN "filter_cb" ELSE "default",
                               !.ff = ff.entry]
    /\ UNCHANGED <<replies, timeout_maker, serial, inq, calls, rinv, cancelled, flast>>
    /\ UNCHANGED <<cellVars, sender, guards>>

\* process_one, line 158: the filter table is locked for remove_matching
MatchStep ==
    /\ disp.pc = "match"
    /\ guards.filters = "free"
    /\ LET ff == FiltersRemoveMatching(filters, disp.msg) IN
       /\ filters' = ff.filters
       /\ disp' = [disp EXCEPT !.pc = IF ff.entry # NoEntry THEN "filter_cb" ELSE "default",
                               !.ff = ff.entry]
    /\ UNCHANGED <<replies, timeout_maker, serial, inq, calls, rinv, cancelled, flast>>
    /\ UNCHANGED <<cellVars, sender, guards>>

\* A process_one that, after a filter callback that returned false, goes on
\* to the next matching filter
FilterCbStepTriesNext(fret) ==
    /\ disp.pc = "filter_cb"
    /\ guards.filters = "free"
    /\ flast' = [flast EXCEPT ![disp.ff.cb] = IF fret THEN "true" ELSE "false"]
    /\ filters' = IF fret THEN FiltersInsert(filters, disp.ff) ELSE filters
    /\ disp' = IF fret THEN Returned(disp) ELSE [disp EXCEPT !.pc = "match", !.ff = NoEntry]
    /\ UNCHANGED <<replies, timeout_maker, serial, inq, calls, rinv, cancelled>>
    /\ UNCHANGED <<cellVars, sender, guards>>

\* process_one, lines 160-162: the filter callback returns fret, and the
\* entry is put back when fret is true
FilterCbStep(fret) ==
    /\ disp.pc = "filter_cb"
    /\ guards.filters = "free"
    /\ flast' = [flast EXCEPT ![disp.ff.cb] = IF fret THEN "true" ELSE "false"]
    /\ filters' = IF fret THEN FiltersInsert(filters, disp.ff) ELSE filters
    /\ disp' = Returned(disp)
    /\ UNCHANGED <<replies, timeout_maker, serial, inq, calls, rinv, cancelled>>
    /\ UNCHANGED <<cellVars, sender, guards>>

\* process_one, lines 163-165
DefaultStep(sendok) ==
    /\ disp.pc = "default"
    /\ sendok => serial < MaxSends
    /\ Install(DefaultBranch(Conn, disp.msg, [fret |-> FALSE, sendok |-> sendok]).st)
    /\ disp' = Returned(disp)
    /\ UNCHANGED <<timeout_maker, inq, cancelled, cellVars, sender, guards>>

(* -------------------- send_with_reply, step by step -------------------- *)
\* send_with_reply, line 135: self.channel.send(msg)
SendBegin(sendok) ==
    /\ sender.pc = "idle"
    /\ sendok => serial < MaxSends
    /\ LET s == ChannelSend(Conn, sendok) IN
       /\ serial' = s.st.serial
       /\ sender' = IF s.ok THEN [pc |-> "sent", token |-> Token(s.serial)] ELSE sender
    /\ UNCHANGED <<replies, filters, timeout_maker, inq, calls, rinv, cancelled, flast>>
    /\ UNCHANGED <<cellVars, disp, guards>>

\* send_with_reply, lines 136-138: the closure given to map() locks (borrows)
\* the reply table and inserts the callback
SendInsert ==
    /\ sender.pc = "sent"
    /\ guards.replies = "free"
    /\ replies' = RepliesInsert(replies, sender.token, UserCb(sender.token))
    /\ sender' = [pc |-> "idle", token |-> 0]
    /\ UNCHANGED <<filters, timeout_maker, serial, inq, calls, rinv, cancelled, flast>>
    /\ UNCHANGED <<cellVars, disp, guards>>

(* --------------------------- specification ---------------------------- *)
vars == <<replies, filters, timeout_maker, serial, inq, calls, rinv, cancelled, flast,
          mr, mrlock, cons, prod, wakes, disp, sender, guards>>

\* The connection used for its tables and process_one
Next ==
    \/ \E rule \in Rules : StartReceive(rule)
    \/ \E id \in 1..MaxFilters : StopReceive(id)
    \/ \E sendok \in BOOLEAN : SendWithReply(sendok)
    \/ \E id \in 1..MaxSends : CancelReply(id)
    \/ \E msg \in Messages : ProcessOne(msg)

Spec == Init /\ [][Next]_vars

\* The reply table under send_with_reply, cancel_reply, process_one and
\* process_all (the transport queues what it receives)
ReplyNext ==
    \/ \E sendok \in BOOLEAN : SendWithReply(sendok)
    \/ \E id \in 1..MaxSends : CancelReply(id)
    \/ \E msg \in Messages : ProcessOne(msg)
    \/ \E msg \in Messages : Incoming(msg)
    \/ ProcessAll

ReplySpec == Init /\ [][ReplyNext]_vars

\* Method calls through a Proxy, their futures and timers, and the dispatch
\* of what comes back
CallNext ==
    \/ \E f \in BOOLEAN : SetTimeoutMaker(f)
    \/ \E sendok \in BOOLEAN : MethodCall(sendok)
    \/ \E c \in 1..MaxCalls, expired \in BOOLEAN : PollCall(c, expired)
    \/ \E c \in 1..MaxCalls : TimerFire(c)
    \/ \E c \in 1..MaxCalls : DropCall(c)
    \/ \E id \in 1..MaxSends : CancelReply(id)
    \/ \E msg \in Messages : ProcessOne(msg)

CallSpec == Init /\ [][CallNext]_vars

\* The task awaiting method call c is polled a first time
FirstPoll(c) ==
    /\ c \in 1..Len(calls)
    /\ calls[c].stage = "new"
    /\ \E expired \in BOOLEAN : PollCall(c, expired)

\* The task awaiting method call c is polled again after a wake
RePollCall(c) ==
    /\ c \in 1..Len(calls)
    /\ calls[c].woken
    /\ \E expired \in BOOLEAN : PollCall(c, expired)

\* The same with every awaited call polled once and again after every wake,
\* and every running timer completing at its deadline
FairCallSpec ==
    /\ CallSpec
    /\ \A c \in 1..MaxCalls :
          WF_vars(FirstPoll(c)) /\ WF_vars(RePollCall(c)) /\ WF_vars(TimerFire(c))

\* One oneshot cell, its producer closure and the task polling it
Replies == {m \in Messages : m.mtype = "method_return"}

CellNext ==
    \/ PollLock
    \/ PollTakeStep
    \/ PollSettleStep
    \/ \E msg \in Replies : ProdLock(msg)
    \/ ProdStore
    \/ ProdWake

CellSpec == Init /\ [][CellNext]_vars

\* The same with both threads running on, and the task polled again after
\* every wake
RePoll == cons.woken /\ PollLock

FairCellSpec ==
    /\ CellSpec
    /\ WF_vars(PollTakeStep) /\ WF_vars(PollSettleStep)
    /\ WF_vars(ProdStore) /\ WF_vars(ProdWake)
    /\ WF_vars(RePoll)

\* process_all step by step on a connection used by one thread: messages
\* arrive and callbacks are registered between the calls of process_all
Arrivals == {m \in Messages : m.reply_serial <= 1 /\ (m.mtype = "method_call" => ~m.no_reply)}

DrainNext ==
    \/ disp.pc = "idle" /\ \E msg \in Arrivals : Incoming(msg)
    \/ disp.pc = "idle" /\ \E sendok \in BOOLEAN : SendWithReply(sendok)
    \/ ProcessAllStart
    \/ PopStep
    \/ DispatchStep

DrainSpec == Init /\ [][DrainNext]_vars

\* The same, the thread inside process_all running on (callbacks return)
FairDrainSpec == DrainSpec /\ WF_vars(PopStep) /\ WF_vars(DispatchStep)

\* A thread in send_with_reply and a thread in process_one, on a connection
\* with no filters
RaceNext ==
    \/ \E sendok \in BOOLEAN : SendBegin(sendok)
    \/ SendInsert
    \/ \E msg \in Messages : ProcessOneStart(msg)
    \/ LookupStep
    \/ ReplyCbStep
    \/ MatchStep
    \/ \E sendok \in BOOLEAN : DefaultStep(sendok)

RaceSpec == Init /\ [][RaceNext]_vars

\* process_one step by step on a connection with filters; start_receive and
\* stop_receive are called at any time, from a filter callback too
FilterNext ==
    \/ \E rule \in Rules : StartReceive(rule)
    \/ \E id \in 1..MaxFilters : StopReceive(id)
    \/ \E msg \in Messages : ProcessOneStart(msg)
    \/ LookupStep
    \/ MatchStep
    \/ \E fret \in BOOLEAN : FilterCbStep(fret)
    \/ \E sendok \in BOOLEAN : DefaultStep(sendok)

FilterSpec == Init /\ [][FilterNext]_vars

\* process_one step by step on a connection with reply entries and filters
DispatchNext ==
    \/ guards.replies = "free" /\ \E sendok \in BOOLEAN : SendWithReply(sendok)
    \/ guards.replies = "free" /\ \E id \in 1..MaxSends : CancelReply(id)
    \/ \E rule \in Rules : StartReceive(rule)
    \/ \E msg \in Messages : ProcessOneStart(msg)
    \/ LookupStep
    \/ ReplyCbStep
    \/ MatchStep
    \/ \E fret \in BOOLEAN : FilterCbStep(fret)
    \/ \E sendok \in BOOLEAN : DefaultStep(sendok)

DispatchSpec == Init /\ [][DispatchNext]_vars

(* ------------------------------- claims ------------------------------- *)
\* The token a reply callback is (or was) stored under
TokenOf(f) == IF f.kind = "producer" THEN calls[f.id].token ELSE f.id

\* msg carries the token of a live reply entry
LiveReply(msg) == HasReplySerial(msg) /\ Token(msg.reply_serial) \in DOMAIN replies

\* C1: process_one of a message whose reply serial is the token of a live
\* reply entry removes exactly that entry, invokes exactly that callback, once
\* and with the message, invokes no filter callback even when a filter rule
\* matches, sends no default reply, and leaves every other reply entry and
\* every filter entry as it was.
C1_ReplyTakesPrecedence ==
    \A msg \in Messages :
        LiveReply(msg) =>
            \A ch \in Choices :
            LET t == Token(msg.reply_serial)
                f == replies[t]
                r == ProcessOneOp(Conn, msg, ch)
            IN /\ DOMAIN r.st.replies = DOMAIN replies \ {t}
               /\ \A k \in DOMAIN r.st.replies : r.st.replies[k] = replies[k]
               /\ r.ev.reply = f /\ r.ev.msg = msg
               /\ \A g \in ReplyCbs : r.st.rinv[g] = rinv[g] + (IF g = f THEN 1 ELSE 0)
               /\ r.ev.filter = NoEntry
               /\ r.st.flast = flast
               /\ r.st.filters = filters
               /\ r.ev.sends = <<>>
               /\ r.st.serial = serial

\* C1 witness: the reply under token 1 has been delivered, the entry under
\* token 2 is still there, and a filter that matches every message is
\* registered and was never called.
C1_Witness ==
    /\ rinv[UserCb(1)] = 1
    /\ 1 \notin DOMAIN replies
    /\ 2 \in DOMAIN replies /\ replies[2] = UserCb(2)
    /\ \E i \in 1..Len(filters.list) :
          filters.list[i].rule = "any" /\ flast[filters.list[i].cb] = "none"

\* C2: a reply callback stored by a successful send_with_reply is invoked at
\* most once: once it has been invoked, or cancel_reply has returned it, its
\* entry is gone, and a later message with its token is no reply delivery and
\* invokes no reply callback.
C2_ReplyAtMostOnce ==
    \A f \in ReplyCbs :
        /\ rinv[f] <= 1
        /\ f \in cancelled => rinv[f] = 0
        /\ (rinv[f] = 1 \/ f \in cancelled) =>
              /\ \A t \in DOMAIN replies : replies[t] # f
              /\ \A msg \in Messages, ch \in Choices :
                    msg.reply_serial = TokenOf(f) =>
                        LET r == ProcessOneOp(Conn, msg, ch) IN
                        r.ev.reply = NoCb /\ r.st.rinv = rinv

\* C2 witness: the callback sent under token 1 has been invoked, the one sent
\* under token 2 was cancelled, and the transport holds another message that
\* carries reply serial 1.
C2_Witness ==
    /\ rinv[UserCb(1)] = 1
    /\ UserCb(2) \in cancelled
    /\ \E i \in 1..Len(inq) : inq[i].reply_serial = 1

\* The entries of the filter table
Entries == {filters.list[i] : i \in 1..Len(filters.list)}

\* The first entry, in the table's order, whose rule matches msg
FirstMatch(list, msg) ==
    IF \E i \in 1..Len(list) : Matches(list[i].rule, msg)
    THEN list[CHOOSE i \in 1..Len(list) :
                /\ Matches(list[i].rule, msg)
                /\ \A j \in 1..(i - 1) : ~Matches(list[j].rule, msg)]
    ELSE NoEntry

\* A filter callback that returned false is in no entry and is never called
\* again; one that returned true is back under its token, with its rule, and
\* stop_receive with that token returns it.
FilterSurvival ==
    /\ \A e \in Entries : flast[e.cb] # "false"
    /\ \A msg \in Messages, ch \in Choices :
          \A r \in {ProcessOneOp(Conn, msg, ch)} :
          \A e \in {r.ev.filter} :
          \A after \in {r.st.filters.list} :
             e # NoEntry =>
                /\ flast[e.cb] # "false"
                /\ r.st.flast[e.cb] = (IF r.ev.fret THEN "true" ELSE "false")
                /\ r.ev.fret =>
                      /\ \E i \in 1..Len(after) : after[i] = e
                      /\ Cardinality({i \in 1..Len(after) : after[i].token = e.token}) = 1
                      /\ FiltersRemove(r.st.filters, e.token).entry = e
                /\ ~r.ev.fret =>
                      \A i \in 1..Len(after) : after[i].token # e.token /\ after[i].cb # e.cb

\* C9 as stated: ... and a filter callback that returned true is invoked for
\* the next message that matches its rule.
C9_Original ==
    /\ FilterSurvival
    /\ \A msg \in Messages, ch \in Choices :
          LET r == ProcessOneOp(Conn, msg, ch)
              e == r.ev.filter
          IN (e # NoEntry /\ r.ev.fret) =>
                \A next \in Messages, ch2 \in Choices :
                    Matches(e.rule, next) => ProcessOneOp(r.st, next, ch2).ev.filter = e

\* C9, amended: a filter callback that returned false for a message is never
\* invoked for a later one and its entry is absent from the filter table; one
\* that returned true is registered again under the same token (stop_receive
\* with the original token returns it) and stays invocable: it is invoked for
\* a later message that matches its rule whenever that message is not
\* delivered to a reply callback and no entry earlier in the table's order
\* matches it.
C9_FilterSurvival ==
    /\ FilterSurvival
    /\ \A msg \in Messages :
          \A e \in {FirstMatch(filters.list, msg)} :
             (e # NoEntry /\ flast[e.cb] = "true" /\ ~LiveReply(msg))
             => \A ch \in Choices : ProcessOneOp(Conn, msg, ch).ev.filter = e

\* C9 witness: one filter callback has returned false and is gone, another
\* has returned true and is in the table under its token.
C9_Witness ==
    /\ flast[1] = "false" /\ \A e \in Entries : e.token # 1
    /\ flast[2] = "true" /\ \E e \in Entries : e.token = 2 /\ e.cb = 2

\* C10: a method call that wants a reply and matches neither a live reply
\* entry nor a filter rule gets exactly one default error reply sent through
\* the transport; when that send fails process_one still ends normally with
\* both tables unchanged; a message delivered to a reply callback or to a
\* filter callback gets no default reply.
C10_DefaultReply ==
    \A msg \in Messages, ch \in Choices :
        LET r == ProcessOneOp(Conn, msg, ch) IN
        /\ (/\ msg.mtype = "method_call" /\ ~msg.no_reply
            /\ ~LiveReply(msg)
            /\ \A e \in Entries : ~Matches(e.rule, msg))
           => /\ Len(r.ev.sends) = 1
              /\ r.ev.sends[1].msg.mtype = "error" /\ r.ev.sends[1].msg.re = msg
              /\ r.ev.sends[1].ok = ch.sendok
              /\ r.st.serial = serial + (IF ch.sendok THEN 1 ELSE 0)
              /\ r.st.replies = replies /\ r.st.filters = filters
              /\ r.ev.reply = NoCb /\ r.ev.filter = NoEntry
              /\ r.st.rinv = rinv /\ r.st.flast = flast
        /\ (r.ev.reply # NoCb \/ r.ev.filter # NoEntry)
           => r.ev.sends = <<>> /\ r.st.serial = serial

\* C10 witness: the transport has sent one message, nothing was ever stored
\* in the reply table, and the only filter takes signals: the message sent
\* was the default reply to an unhandled method call.
C10_Witness ==
    /\ serial = 1
    /\ replies = <<>> /\ cancelled = {} /\ \A f \in ReplyCbs : rinv[f] = 0
    /\ Len(filters.list) = 1 /\ filters.list[1].rule = "signal"

\* The polls of the cell that returned a completion
ReadyPolls == {i \in 1..Len(cons.log) : cons.log[i].ready}

\* The producer closure has stored its value
Produced == prod.pc \in {"stored", "done"}

\* In how many places the produced value is: in the cell, in the hands of a
\* poll that took it out of the cell, in the completion a poll returned
ValuePlaces ==
    (IF mr.tag = "Ready" THEN 1 ELSE 0)
    + (IF cons.pc = "took" /\ cons.r.tag = "Ready" THEN 1 ELSE 0)
    + Cardinality(ReadyPolls)

\* C3: for every interleaving of one producer invocation with the polls of
\* the cell, at most one poll returns a completion, that completion carries
\* the produced message, every other poll (before and after it) returns
\* not-yet-ready, and the produced value is never lost or doubled: until a
\* poll returns it, it is in the cell or in the hands of the poll that took
\* it, so that the first poll after the store returns it.
C3_OneshotExactlyOnce ==
    /\ Cardinality(ReadyPolls) <= 1
    /\ \A i \in ReadyPolls :
          /\ Produced
          /\ cons.log[i].val = prod.msg
          /\ \A j \in 1..Len(cons.log) : j # i => ~cons.log[j].ready
    /\ ValuePlaces = (IF Produced THEN 1 ELSE 0)
    /\ mr.tag = "Ready" => mr.val = prod.msg
    /\ (cons.pc = "took" /\ cons.r.tag = "Ready") => cons.r.val = prod.msg

\* C3 witness: a poll returned not-yet-ready, the producer ran, the next poll
\* returned the completion, and a poll after that returned not-yet-ready.
C3_Witness ==
    /\ Len(cons.log) >= 3
    /\ ~cons.log[1].ready /\ cons.log[2].ready /\ ~cons.log[3].ready
    /\ prod.pc = "done"

\* No wake is lost: once the producer closure has run, and some poll has
\* returned, either a poll has returned the completion or exactly one wake
\* handle was invoked, the one the last poll before the store left in the
\* cell; and a wake handle is invoked only after the value is stored.
NoLostWake ==
    /\ (prod.pc = "done" /\ cons.log # <<>>) =>
          \/ ReadyPolls # {}
          \/ prod.armed # 0 /\ wakes = <<prod.armed>>
    /\ wakes # <<>> => prod.pc = "done" /\ wakes = <<prod.armed>>

\* C4: no lost wake-up: if the task has polled the cell and the producer
\* closure is invoked, in any interleaving, then a poll observes the value or
\* the most recently stored wake handle is invoked after the store; and, the
\* task being polled again after every wake, a poll eventually returns the
\* completion with the produced message.
C4_NoLostWakeup ==
    /\ []NoLostWake
    /\ (prod.pc # "idle" /\ cons.log # <<>>)
          ~> (\E i \in ReadyPolls : cons.log[i].val = prod.msg)

\* C4 witness: two polls stored their wake handles, the producer then ran and
\* invoked the second one, and the poll after the wake returned the value.
C4_Witness ==
    /\ Len(cons.log) >= 3 /\ cons.log[3].ready
    /\ cons.stored = <<WakerOf(1), WakerOf(2)>>
    /\ wakes = <<WakerOf(2)>>

\* x is an element of the sequence seq
In(seq, x) == \E i \in 1..Len(seq) : seq[i] = x

\* The method calls the claims about the timeout race speak of: sent, with a
\* timer source configured, and the producer or the timer has fired
Raced == {c \in 1..Len(calls) :
            calls[c].ok /\ calls[c].timeoutfn /\ calls[c].order # <<>>}

\* Method call c is resolved with outcome res, or its next poll resolves it so
Resolves(c, res) ==
    LET call == calls[c] IN
    /\ call.stage = "done" => call.result = res
    /\ (call.stage # "done" /\ ~call.dropped) =>
          \A expired \in BOOLEAN :
             LET p == AwaitPoll(call, c, expired) IN
             p.stage = "done" /\ p.result = res

\* The reply a resolved method call delivered is the one its producer got
ReplyContent ==
    \A c \in 1..Len(calls) :
        calls[c].result = "reply" => calls[c].rmsg = calls[c].pmsg /\ In(calls[c].seen, "producer")

\* C5 as stated: the producer fired first: the reply; the timer completed
\* first: the timeout error.
C5_Original ==
    /\ ReplyContent
    /\ \A c \in Raced :
          Resolves(c, IF Head(calls[c].order) = "producer" THEN "reply" ELSE "timeout")

\* C5, amended: for a sent method call with a timer source: if the producer
\* fires before the timer completes, the call resolves with the reply's
\* content; if the timer completes before the producer fires, the call
\* resolves with the timeout error when its task is polled before the
\* producer fires, and with the reply's content when the producer fires
\* before that poll (select polls the reply future first).
C5_TimeoutRace ==
    /\ ReplyContent
    /\ \A c \in Raced :
          LET call == calls[c]
              atPoll == IF call.stage = "done" THEN call.seen ELSE call.order
          IN IF Head(call.order) = "producer"
             THEN Resolves(c, "reply")
             ELSE Resolves(c, IF In(atPoll, "producer") THEN "reply" ELSE "timeout")

\* C5 witness: the producer fired, then the timer completed, then the task
\* was polled and the call resolved with the reply.
C5_Witness ==
    \E c \in 1..Len(calls) :
        /\ calls[c].order = <<"producer", "timer">>
        /\ calls[c].seen = <<"producer", "timer">>
        /\ calls[c].result = "reply" /\ calls[c].rmsg = calls[c].pmsg

\* The method calls that resolved with the timeout error, whose future is
\* dropped and whose reply entry is still in the table
TimedOutLive == {c \in 1..Len(calls) :
                    /\ calls[c].result = "timeout" /\ calls[c].dropped
                    /\ calls[c].token \in DOMAIN replies
                    /\ replies[calls[c].token] = ProducerCb(c)}

\* process_one of the reply to a call of TimedOutLive removes the entry,
\* invokes the producer closure, for the first and only time, which writes the
\* cell (and, unless quiet, invokes the wake handle the last poll left in it),
\* and changes nothing else: no other reply entry, no filter, nothing sent,
\* and not the outcome the call has delivered.
LateProducer(quiet) ==
    \A c \in TimedOutLive :
        \A msg \in {m \in Messages : m.reply_serial = calls[c].token}, ch \in Choices :
            LET call == calls[c]
                f == ProducerCb(c)
                r == ProcessOneOp(Conn, msg, ch)
                after == r.st.calls[c]
            IN /\ DOMAIN r.st.replies = DOMAIN replies \ {call.token}
               /\ \A k \in DOMAIN r.st.replies : r.st.replies[k] = replies[k]
               /\ r.ev.reply = f
               /\ rinv[f] = 0 /\ r.st.rinv = [rinv EXCEPT ![f] = 1]
               /\ after.cell = Ready(msg)
               /\ after.woken = (IF quiet THEN call.woken ELSE call.cell.tag = "Pending")
               /\ [after EXCEPT !.cell = call.cell, !.woken = call.woken,
                                !.order = call.order, !.pmsg = call.pmsg] = call
               /\ after.stage = "done" /\ after.result = "timeout"
               /\ \A d \in 1..Len(calls) : d # c => r.st.calls[d] = calls[d]
               /\ r.st.filters = filters /\ r.st.flast = flast
               /\ r.st.serial = serial /\ r.ev.sends = <<>> /\ r.ev.filter = NoEntry

\* C6 as stated: ... the late producer only writes the cell.
C6_Original == LateProducer(TRUE)

\* C6, amended: after a method call has resolved with the timeout error and
\* its future has been dropped, process_one of the matching reply removes the
\* reply entry, invokes the producer closure exactly once, which writes the
\* cell and invokes the wake handle that the last poll left in it, changes no
\* other connection state, and does not change the timeout outcome.
C6_LateProducer ==
    /\ LateProducer(FALSE)
    /\ \A c \in 1..Len(calls) :
          (calls[c].result = "timeout" /\ In(calls[c].order, "producer")) =>
             /\ calls[c].cell.tag = "Ready" /\ calls[c].cell.val = calls[c].pmsg
             /\ rinv[ProducerCb(c)] = 1
             /\ \A t \in DOMAIN replies : replies[t] # ProducerCb(c)

\* C6 witness: the call resolved with the timeout error, its future was
\* dropped, and the reply was dispatched afterwards.
C6_Witness ==
    \E c \in 1..Len(calls) :
        /\ calls[c].result = "timeout" /\ calls[c].dropped
        /\ calls[c].seen = <<"timer">>
        /\ calls[c].order = <<"timer", "producer">>
        /\ rinv[ProducerCb(c)] = 1

\* C7: when the transport's send fails, send_with_reply returns failure and
\* leaves the reply table as it was, the timer source is never invoked for the
\* call, and the call resolves with the failed-to-send error whatever is
\* dispatched later.
C7_SendFailure ==
    /\ \A f \in ReplyCbs :
          LET r == SendWithReplyOp(Conn, f, FALSE) IN
          ~r.ok /\ r.st.replies = replies /\ r.st.serial = serial
    /\ \A c \in 1..Len(calls) :
          LET call == calls[c] IN
          ~call.ok =>
             /\ \A t \in DOMAIN replies : replies[t] # ProducerCb(c)
             /\ rinv[ProducerCb(c)] = 0 /\ call.cell = Neither /\ call.order = <<>>
             /\ call.timer = "unmade"
             /\ call.stage = "done" => call.result = "sendfail"
             /\ (call.stage # "done" /\ ~call.dropped) =>
                   \A expired \in BOOLEAN :
                      LET p == AwaitPoll(call, c, expired) IN
                      p.stage = "done" /\ p.result = "sendfail" /\ p.timer = "unmade"
             /\ \A msg \in Messages, ch \in Choices :
                   ProcessOneOp(Conn, msg, ch).st.calls[c] = call

\* C7 witness: a timer source is configured, the send of the call failed, and
\* the call has resolved with the failed-to-send error.
C7_Witness ==
    \E c \in 1..Len(calls) :
        /\ ~calls[c].ok /\ calls[c].timeoutfn
        /\ calls[c].stage = "done" /\ calls[c].result = "sendfail"

\* A method call that resolved with the timeout error and whose reply was
\* never dispatched still has its reply entry, unless cancel_reply took it;
\* removing it returns the producer closure, and removing it again returns
\* nothing.
TimeoutKeepsEntry ==
    \A c \in 1..Len(calls) :
        LET call == calls[c] f == ProducerCb(c) IN
        (call.result = "timeout" /\ ~In(call.order, "producer")) =>
           /\ rinv[f] = 0
           /\ f \notin cancelled =>
                 /\ call.token \in DOMAIN replies /\ replies[call.token] = f
                 /\ LET r == RepliesRemove(replies, call.token) IN
                    /\ r.f = f
                    /\ call.token \notin DOMAIN r.table
                    /\ RepliesRemove(r.table, call.token).f = NoCb
           /\ f \in cancelled =>
                 /\ call.token \notin DOMAIN replies
                 /\ RepliesRemove(replies, call.token).f = NoCb

\* C8: when a method call resolves with the timeout error and no reply has
\* been dispatched, its reply entry is still there; cancel_reply with its
\* token removes and returns the callback and invokes nothing, and a second
\* cancel_reply with the token returns none.
C8_TimeoutThenCancel ==
    /\ []TimeoutKeepsEntry
    /\ [][cancelled' # cancelled => rinv' = rinv /\ calls' = calls]_vars

\* C8 witness: the call resolved with the timeout error, no reply was
\* dispatched, and cancel_reply has returned its producer closure.
C8_Witness ==
    \E c \in 1..Len(calls) :
        /\ calls[c].result = "timeout" /\ ~In(calls[c].order, "producer")
        /\ ProducerCb(c) \in cancelled
        /\ rinv[ProducerCb(c)] = 0

\* What process_all has dispatched, is dispatching and has still to pop is
\* what the transport held when it was called, in that order; when it has
\* returned, it has dispatched all of it.
DrainOrder ==
    /\ disp.pc = "idle" => disp.done = disp.start
    /\ disp.pc = "pop" => disp.done \o inq = disp.start /\ disp.msg = NoMsg
    /\ disp.pc = "dispatch" => disp.done \o <<disp.msg>> \o inq = disp.start

\* C11: process_all pops the messages one at a time and dispatches each once,
\* in the order the transport pops them, the dispatch of one complete before
\* the next is popped; it returns when pop_message has no message, and so it
\* returns whenever the transport holds finitely many messages.
C11_DrainInOrder ==
    /\ []DrainOrder
    /\ (disp.pc # "idle") ~> (disp.pc = "idle" /\ disp.done = disp.start)

\* C11 witness: process_all has returned after dispatching two different
\* messages, the reply under token 1 among them.
C11_Witness ==
    /\ disp.pc = "idle" /\ inq = <<>>
    /\ Len(disp.done) = 2 /\ disp.done[1] # disp.done[2]
    /\ rinv[UserCb(1)] = 1

\* C12: process_all called when the transport has no pending message leaves
\* the reply table and the filter table as they are, invokes no callback,
\* sends nothing and returns; the state after any number of such calls is the
\* state before them.
C12_EmptyDrain ==
    /\ [](inq = <<>> => ProcessAllOutcomes(Conn, inq, <<>>) = {[st |-> Conn, events |-> <<>>]})
    /\ [][(disp.pc = "idle" /\ inq = <<>> /\ disp'.pc = "pop")
            => (connVars' = connVars /\ disp'.start = <<>>)]_vars
    /\ [][(disp.pc = "pop" /\ disp.start = <<>>)
            => (connVars' = connVars /\ disp'.pc = "idle" /\ disp'.done = <<>>)]_vars

\* C12 witness: process_all is running, called when the transport held no
\* message, while the reply table holds an entry and another callback has
\* been invoked before.
C12_Witness ==
    /\ disp.pc = "pop" /\ disp.start = <<>> /\ inq = <<>>
    /\ 2 \in DOMAIN replies /\ rinv[UserCb(1)] = 1

\* C13: with no timer source configured (the state after construction), a
\* sent method call never resolves with the timeout error: it has no timer
\* that completes, it is pending, and stays so at every poll, as long as no
\* reply was dispatched, and it resolves only with the dispatched reply.
C13_NoTimerNoTimeout ==
    \A c \in 1..Len(calls) :
          LET call == calls[c] IN
          (call.ok /\ ~call.timeoutfn) =>
             /\ call.result \in {"none", "reply"}
             /\ call.timer \in {"unmade", "never"} /\ ~In(call.order, "timer")
             /\ call.result = "reply" =>
                   In(call.seen, "producer") /\ call.rmsg = call.pmsg
             /\ ~In(call.order, "producer") =>
                   /\ call.stage # "done"
                   /\ ~call.dropped =>
                         \A expired \in BOOLEAN :
                            LET p == AwaitPoll(call, c, expired) IN
                            p.stage = "select" /\ p.result = "none" /\ p.timer = "never"
             /\ (In(call.order, "producer") /\ call.stage # "done" /\ ~call.dropped) =>
                   \A expired \in BOOLEAN :
                      LET p == AwaitPoll(call, c, expired) IN
                      p.stage = "done" /\ p.result = "reply" /\ p.rmsg = call.pmsg

\* C13 witness: no timer source was ever set, the call was sent and polled,
\* no reply was dispatched, and the call is still pending.
C13_Witness ==
    /\ ~timeout_maker
    /\ \E c \in 1..Len(calls) :
          /\ calls[c].ok /\ ~calls[c].timeoutfn
          /\ calls[c].stage = "select" /\ calls[c].timer = "never"
          /\ calls[c].order = <<>> /\ calls[c].result = "none"

\* C14: in process_one no table guard is held while a reply callback or a
\* filter callback is executing.
C14_NoGuardInCallback ==
    disp.pc \in {"reply_cb", "filter_cb"} =>
        guards.replies = "free" /\ guards.filters = "free"

\* msg carries a reply serial that is the token of no reply entry
StaleSerial(msg) == HasReplySerial(msg) /\ Token(msg.reply_serial) \notin DOMAIN replies

\* C15: a message whose reply serial has no entry in the reply table is not
\* dropped at the reply lookup: the lookup leaves the reply table as it is,
\* invokes nothing, and process_one goes on to filter matching, which treats
\* the message as any other: the first matching filter, if any, is taken and
\* invoked.
C15_StaleReplyFallsThrough ==
    /\ [][(disp.pc = "lookup" /\ StaleSerial(disp.msg) /\ disp' # disp)
            => /\ disp'.pc = "match" /\ disp'.msg = disp.msg
               /\ replies' = replies /\ rinv' = rinv /\ filters' = filters
               /\ serial' = serial /\ guards'.replies = "free"]_vars
    /\ [][(disp.pc = "match" /\ disp' # disp)
            => /\ disp'.ff = FirstMatch(filters.list, disp.msg)
               /\ disp'.ff = FirstMatch(filters.list, [disp.msg EXCEPT !.reply_serial = 0])
               /\ disp'.pc = (IF disp'.ff = NoEntry THEN "default" ELSE "filter_cb")
               /\ disp'.msg = disp.msg /\ replies' = replies]_vars
    /\ [](disp.pc = "filter_cb" => Matches(disp.ff.rule, disp.msg))

\* C15 witness: the callback under token 1 has been invoked, or was
\* cancelled, and a later message with reply serial 1 is in the hands of a
\* filter callback.
C15_Witness ==
    /\ disp.pc = "filter_cb" /\ disp.msg.reply_serial = 1
    /\ rinv[UserCb(1)] = 1 \/ UserCb(1) \in cancelled

\* The filter table holds its entries in the order of their tokens, the order
\* in which start_receive created them
InsertionOrder ==
    \A i, j \in 1..Len(filters.list) :
        i < j => filters.list[i].token < filters.list[j].token

\* C16: for every message dispatched by process_one at most one filter
\* callback is invoked, once: of the entries whose rule matches, the first in
\* insertion order is taken and invoked, and process_one returns after it;
\* the other entries, matching or not, are neither invoked nor removed.
C16_OneFilterPerMessage ==
    /\ []InsertionOrder
    /\ [][(disp.pc = "match" /\ disp' # disp)
            => /\ disp'.ff = FirstMatch(filters.list, disp.msg)
               /\ \A e \in Entries :
                     e # disp'.ff => \E i \in 1..Len(filters'.list) : filters'.list[i] = e
               /\ flast' = flast]_vars
    /\ [][flast' # flast
            => /\ disp.pc = "filter_cb" /\ disp'.pc = "idle"
               /\ \A cb \in 1..MaxFilters : cb # disp.ff.cb => flast'[cb] = flast[cb]
               /\ \A e \in Entries : \E i \in 1..Len(filters'.list) : filters'.list[i] = e]_vars

\* C16 witness: two filters that match every message are registered, a
\* message was dispatched to the first, which returned true, and the second
\* was never invoked and is still registered.
C16_Witness ==
    /\ disp.pc = "idle"
    /\ Len(filters.list) = 2
    /\ filters.list[1].rule = "any" /\ filters.list[2].rule = "any"
    /\ flast[filters.list[1].cb] = "true" /\ flast[filters.list[2].cb] = "none"

\* C17: the producer closure invokes a wake handle if and only if the cell
\* was armed at the moment it stored the value, and the handle it invokes is
\* the one the most recent poll stored; no step of a poll invokes a wake
\* handle.  So the task is woken at most once per producer invocation, and
\* never before the producer has stored the value.
C17_WakeIffArmed ==
    /\ [][(prod.pc = "locked" /\ prod'.pc = "stored") => prod'.old = mr]_vars
    /\ [][(prod.pc = "stored" /\ prod'.pc = "done")
            => /\ ((wakes' # wakes) <=> (prod.old.tag = "Pending"))
               /\ (prod.old.tag = "Pending"
                     => /\ wakes' = Append(wakes, prod.old.waker)
                        /\ cons.stored # <<>>
                        /\ prod.old.waker = cons.stored[Len(cons.stored)])]_vars
    /\ [][wakes' # wakes => (prod.pc = "stored" /\ prod'.pc = "done" /\ cons' = [cons EXCEPT !.woken = TRUE])]_vars
    /\ [](Len(wakes) <= 1)
    /\ [](wakes # <<>> => prod.pc = "done")

\* C17 witness: three polls armed the cell, the producer closure then invoked
\* the wake handle of the third, and the poll that followed returned the
\* value without invoking anything.
C17_Witness ==
    /\ cons.stored = <<WakerOf(1), WakerOf(2), WakerOf(3)>>
    /\ prod.pc = "done"
    /\ wakes = <<WakerOf(3)>>
    /\ Len(cons.log) = 4 /\ cons.log[4].ready

\* Method call c exists and was made with a timeout maker set
Timed(c) == c \in 1..Len(calls) /\ calls[c].timeoutfn

\* Method call c has resolved, or its future was dropped
Settled(c) ==
    /\ c \in 1..Len(calls)
    /\ calls[c].dropped \/ (calls[c].stage = "done"
                              /\ calls[c].result \in {"reply", "timeout", "sendfail"})

\* C18: with a timeout maker set whose timer completes at the deadline, and
\* the awaiting task polled once and again after every wake, every method
\* call eventually resolves with the reply, the timeout error or the send
\* failure, whether or not a reply is ever dispatched (a future that is
\* dropped is no longer awaited).
C18_EventuallyResolves ==
    \A c \in 1..MaxCalls : Timed(c) ~> Settled(c)

\* C18 witness: a call made with a timeout maker set was polled, its timer
\* completed, a poll resolved it with the timeout error, and its reply was
\* never dispatched nor cancelled.
C18_Witness ==
    \E c \in 1..Len(calls) :
        /\ calls[c].timeoutfn /\ calls[c].ok /\ ~calls[c].dropped
        /\ calls[c].stage = "done" /\ calls[c].result = "timeout"
        /\ calls[c].seen = <<"timer">> /\ ~calls[c].woken
        /\ rinv[ProducerCb(c)] = 0 /\ ProducerCb(c) \notin cancelled
        /\ calls[c].token \in DOMAIN replies

\* C19: with send_with_reply on one thread and the dispatch of incoming
\* messages on another, no reply to the serial the transport gave to the
\* outgoing message is looked up before the callback is stored: both having
\* returned, there is no entry left uninvoked in the table whose reply went
\* past the lookup to the filters or the default branch.
C19_NoLostReply ==
    \A t \in disp.missed :
        ~(/\ disp.pc = "idle" /\ sender.pc = "idle"
          /\ t \in DOMAIN replies /\ rinv[UserCb(t)] = 0)

\* The tokens of the entries of the filter table
FilterTokens == {filters.list[i].token : i \in 1..Len(filters.list)}

\* No two entries of the filter table share a token
TokensDistinct == Cardinality(FilterTokens) = Len(filters.list)

\* While a filter callback runs its entry is not in the table: stop_receive
\* with its token finds nothing and changes nothing, and start_receive hands
\* out another token
OwnEntryAbsent ==
    disp.pc = "filter_cb" =>
       /\ disp.ff.token \notin FilterTokens
       /\ FiltersRemove(filters, disp.ff.token) = [filters |-> filters, entry |-> NoEntry]
       /\ \A rule \in Rules : FiltersAdd(filters, rule, 0).token # disp.ff.token

\* C20: while a filter callback is executing inside process_one its entry is
\* absent from the filter table, so that stop_receive with its token returns
\* none; when the callback returns true the entry is in the table again
\* under the same token; the filters registered by start_receive meanwhile
\* are kept and have other tokens; no two entries ever share a token.
C20_ReentrantFilter ==
    /\ []OwnEntryAbsent
    /\ []TokensDistinct
    /\ [][(disp.pc = "filter_cb" /\ disp'.pc = "idle")
            => /\ Entries \subseteq {filters'.list[i] : i \in 1..Len(filters'.list)}
               /\ (flast'[disp.ff.cb] = "true")
                     <=> (\E i \in 1..Len(filters'.list) : filters'.list[i] = disp.ff)
               /\ Len(filters'.list) = Len(filters.list)
                                       + (IF flast'[disp.ff.cb] = "true" THEN 1 ELSE 0)]_vars
    /\ [][(disp.pc = "filter_cb" /\ disp'.pc = "filter_cb"
              /\ Len(filters'.list) > Len(filters.list))
            => /\ filters'.list = Append(filters.list, filters'.list[Len(filters'.list)])
               /\ filters'.list[Len(filters'.list)].token # disp.ff.token]_vars

\* C20 witness: the filter of token 1 returned true once and was put back
\* under token 1; it is executing again, the table does not hold it, and the
\* table holds the filter of token 2.
C20_Witness ==
    /\ disp.pc = "filter_cb" /\ disp.ff.token = 1
    /\ flast[disp.ff.cb] = "true"
    /\ FilterTokens = {2}
    /\ FiltersRemove(filters, 1).entry = NoEntry

=============================================================================
